---- MODULE Spec2Model ----
(***************************************************************************)
(* State-machine model of the batch scraper.                               *)
(*                                                                         *)
(* Two orchestrators of the repository are modelled, selected by the       *)
(* variable `variant`:                                                     *)
(*   "retry"   - src/unimed-scraper.js lines 1-183: bounded retries with   *)
(*               a delay, the session recycled every BATCH_SIZE targets    *)
(*               (src/unnamed/part_000 lines 166-374 has the same control  *)
(*               flow);                                                    *)
(*   "logging" - src/unnamed/part_000 lines 1-164: one attempt per target, *)
(*               failures appended to a diagnostic log (src/unimed-        *)
(*               scraper.js lines 185-320 has the same control flow        *)
(*               without the log).                                         *)
(*                                                                         *)
(* Every `await` of the source is one step: the awaited call settles       *)
(* either normally or by throwing, and the step moves the program counter  *)
(* to the statement executed next.                                         *)
(*                                                                         *)
(* The callback of page.evaluate, which builds the product record from the *)
(* rendered document, is modelled on its own under ExtractSpec: its three  *)
(* versions are selected by the variable `extractor`, and one step is one  *)
(* aspect of the record (name and part number, images, one table).         *)
(***************************************************************************)
EXTENDS Integers, Sequences, FiniteSets

\* ---------------------------------------------------------------- constants

BATCH_SIZE == 50

RETRY_LIMIT == 3

DELAY_MS == 2000

RETRY_DELAY_MS == 2000

NAV_TIMEOUT_MS == 30000

SELECTOR_TIMEOUT_MS == 10000

\* ------------------------------------------------------------------- bounds

\* Longest target list the retry orchestrator is run on.
MaxTargets == 101

\* Longest target list the logging orchestrator is run on.
MaxTargetsLogging == 4

\* Most calls (navigation, wait, evaluate, close, launch, configure, file
\* write, log append) that throw in one run.
MaxFaults == 3

\* The most img elements a drawn document has over the three image sources.
MaxImages == 3

\* The most rows after the first a drawn document has over all its tables.
MaxRows == 2

\* ------------------------------------------------------------------- values

\* The addresses the target list cycles through; a list longer than the
\* pool therefore holds duplicate URLs.
UrlPool == <<"https://shop/products/a", "https://shop/products/b", "https://shop/products/c">>

\* `undefined`: what product.product_link yields for an entry without it.
Undefined == "undefined"

\* The errors an attempt can throw, by the awaited call that throws them.
NavigationTimeout == "NavigationTimeout"

ContentNotFound == "ContentNotFound"

ExtractionError == "ExtractionError"

\* An error of fs.appendFileSync inside logErrorToFile.
LogWriteError == "LogWriteError"

NoError == "none"

\* scrapeProduct's return values: null, or the record page.evaluate built.
Null == "null"

Unset == "unset"

\* The record page.evaluate returns, by whether its images list is empty (the
\* only content of it that main or scrapeProduct reads).
ProductData == "productData"

ProductDataNoImages == "productDataNoImages"

\* The error of page.goto(undefined).
InvalidUrl == "InvalidUrl"

VARIABLES
  variant,      \* which orchestrator runs
  input,        \* shape of JSON.parse's result: "array", "object", "null"
  productLinks, \* the entries of the target list the loop has reached
  pc,           \* the statement the run is at
  i,            \* the loop index (0-based)
  url,          \* main's `url` for the current target
  attempts,     \* scrapeProduct's `attempts`
  lastError,    \* the error the last catch of scrapeProduct caught
  ret,          \* scrapeProduct's return value for the current target
  trace,        \* the awaited calls made for the current target, in order
  scrapedData,  \* main's scrapedData
  failedLinks,  \* main's failedLinks
  log,          \* the lines appended to the diagnostic log
  live,         \* number of launched and not yet closed browsers
  launched,     \* browsers launched so far
  closed,       \* browsers closed so far
  recycledAt,   \* the loop indices at which the browser was restarted
  artifacts,    \* the result files written
  writeCalls,   \* the result files fs.writeFileSync was called for
  faults,       \* calls that threw so far
  abortAt       \* the statement whose error nothing caught ("" if none)

\* The page extractor (the callback of page.evaluate).
VARIABLES
  extractor,    \* which extractor runs ("none" while none is modelled)
  doc,          \* the document the callback reads
  data,         \* the callback's `data`
  tempData,     \* the "html" extractor's `tempData`
  xpc,          \* the statement the callback is at
  tableIx       \* the tables the callback of tables.forEach was called for

\* The orchestrator's variables.
orchestrator == <<variant, input, productLinks, pc, i, url, attempts, lastError,
                  ret, trace, scrapedData, failedLinks, log, live, launched,
                  closed, recycledAt, artifacts, writeCalls, faults, abortAt>>

\* The extractor's variables.
extraction == <<extractor, doc, data, tempData, xpc, tableIx>>

vars == <<variant, input, productLinks, pc, i, url, attempts, lastError, ret,
          trace, scrapedData, failedLinks, log, live, launched, closed,
          recycledAt, artifacts, writeCalls, faults, abortAt,
          extractor, doc, data, tempData, xpc, tableIx>>

\* ------------------------------------------------------------------ helpers

\* An awaited call may throw only while the fault budget lasts.
CanFault == faults < MaxFaults

\* The list entry at 0-based index k: a record with a product_link, cycling
\* through the pool.
LinkEntry(k) == [kind |-> "link", product_link |-> UrlPool[(k % Len(UrlPool)) + 1]]

\* An entry that is an object without the product_link field.
NoLinkEntry == [kind |-> "nolink", product_link |-> Undefined]

\* An entry that is JSON null: reading .product_link of it throws.
NullEntry == [kind |-> "null", product_link |-> Undefined]

Event(op, ms) == [op |-> op, ms |-> ms]

\* The bound on the list length, by orchestrator.
ListBound == IF variant = "retry" THEN MaxTargets ELSE MaxTargetsLogging

\* Faulty restart test: the `i !== 0` conjunct is missing.
RecycleDueAtZero(k) == k % BATCH_SIZE = 0

\* i % BATCH_SIZE === 0 && i !== 0
RecycleDue(k) == k % BATCH_SIZE = 0 /\ k # 0

\* An error no handler catches rejects main's promise: the run stops there.
Abort(at) ==
  /\ pc' = "aborted"
  /\ abortAt' = at
  /\ faults' = faults + 1

\* ------------------------------------------------------------------ startup

\* In the orchestrator's runs the callback of page.evaluate is not stepped
\* through: its result is the record Evaluate draws (the extractor is
\* modelled on its own, from ExtractInit).
NotExtracting ==
  /\ extractor = "none"
  /\ doc = <<>>
  /\ data = <<>>
  /\ tempData = <<>>
  /\ xpc = "idle"
  /\ tableIx = 0

Init ==
  /\ variant \in {"retry", "logging"}
  /\ input \in {"array", "object", "null"}
  /\ productLinks = <<>>
  /\ pc = "launch"
  /\ i = 0
  /\ url = Undefined
  /\ attempts = 0
  /\ lastError = NoError
  /\ ret = Unset
  /\ trace = <<>>
  /\ scrapedData = <<>>
  /\ failedLinks = <<>>
  /\ log = <<>>
  /\ live = 0
  /\ launched = 0
  /\ closed = 0
  /\ recycledAt = <<>>
  /\ artifacts = {}
  /\ writeCalls = <<>>
  /\ faults = 0
  /\ abortAt = ""
  /\ NotExtracting

\* launchBrowser() / puppeteer.launch() at the top of main.
Launch ==
  /\ pc = "launch"
  /\ \/ /\ pc' = "configure"
        /\ live' = live + 1
        /\ launched' = launched + 1
        /\ UNCHANGED <<faults, abortAt>>
     \/ /\ CanFault
        /\ Abort("launch")
        /\ UNCHANGED <<live, launched>>
  /\ UNCHANGED <<variant, input, productLinks, i, url, attempts, lastError, ret,
                 trace, scrapedData, failedLinks, log, closed, recycledAt,
                 artifacts, writeCalls>>
  /\ UNCHANGED extraction

\* browser.newPage() and, in the retry orchestrator, setUserAgent,
\* setExtraHTTPHeaders and evaluateOnNewDocument.
Configure ==
  /\ pc = "configure"
  /\ \/ /\ pc' = "loop"
        /\ UNCHANGED <<faults, abortAt>>
     \/ /\ CanFault
        /\ Abort("configure")
  /\ UNCHANGED <<variant, input, productLinks, i, url, attempts, lastError, ret,
                 trace, scrapedData, failedLinks, log, live, launched, closed,
                 recycledAt, artifacts, writeCalls>>
  /\ UNCHANGED extraction

\* --------------------------------------------------------------- main loop

\* The loop head: `i < productLinks.length` (retry) or the next step of
\* `for (let product of productLinks)` (logging). The list is read as the
\* loop reaches it: either it has ended, or its next entry is drawn here.
\* JSON null has no .length and is not iterable: TypeError, uncaught. Another
\* non-array value (an object, a number) has .length undefined, so the
\* retry loop's test is false at once; for...of throws on it.
\* An entry without product_link makes every navigation for it throw, so it
\* is drawn only while the fault budget covers those navigations.
LoopHead ==
  /\ pc = "loop"
  /\ \/ /\ input = "null" \/ (input = "object" /\ variant = "logging")
        /\ pc' = "aborted"
        /\ abortAt' = "loop"
        /\ UNCHANGED productLinks
     \/ /\ input = "object" /\ variant = "retry"
        /\ pc' = "close"
        /\ UNCHANGED <<productLinks, abortAt>>
     \/ /\ input = "array"
        /\ pc' = "close"
        /\ UNCHANGED <<productLinks, abortAt>>
     \/ /\ input = "array"
        /\ i < ListBound
        /\ \E e \in {LinkEntry(i), NoLinkEntry, NullEntry} :
             /\ e.kind = "nolink" =>
                  faults + (IF variant = "retry" THEN RETRY_LIMIT ELSE 1) <= MaxFaults
             /\ productLinks' = Append(productLinks, e)
        /\ pc' = IF variant = "retry" /\ RecycleDue(i) THEN "recycle_close" ELSE "entry"
        /\ UNCHANGED abortAt
  /\ UNCHANGED <<variant, input, i, url, attempts, lastError, ret, trace,
                 scrapedData, failedLinks, log, live, launched, closed,
                 recycledAt, artifacts, writeCalls, faults>>
  /\ UNCHANGED extraction

\* Faulty restart: the old browser is not closed before the new launch.
RecycleCloseSkipped ==
  /\ pc = "recycle_close"
  /\ pc' = "recycle_launch"
  /\ recycledAt' = Append(recycledAt, i)
  /\ UNCHANGED <<variant, input, productLinks, i, url, attempts, lastError, ret,
                 trace, scrapedData, failedLinks, log, live, launched, closed,
                 artifacts, writeCalls, faults, abortAt>>
  /\ UNCHANGED extraction

\* `await browser.close()` of the restart branch.
RecycleClose ==
  /\ pc = "recycle_close"
  /\ \/ /\ pc' = "recycle_launch"
        /\ live' = live - 1
        /\ closed' = closed + 1
        /\ recycledAt' = Append(recycledAt, i)
        /\ UNCHANGED <<faults, abortAt>>
     \/ /\ CanFault
        /\ Abort("recycle_close")
        /\ UNCHANGED <<live, closed, recycledAt>>
  /\ UNCHANGED <<variant, input, productLinks, i, url, attempts, lastError, ret,
                 trace, scrapedData, failedLinks, log, launched, artifacts,
                 writeCalls>>
  /\ UNCHANGED extraction

\* `browser = await launchBrowser()` of the restart branch.
RecycleLaunch ==
  /\ pc = "recycle_launch"
  /\ \/ /\ pc' = "recycle_configure"
        /\ live' = live + 1
        /\ launched' = launched + 1
        /\ UNCHANGED <<faults, abortAt>>
     \/ /\ CanFault
        /\ Abort("recycle_launch")
        /\ UNCHANGED <<live, launched>>
  /\ UNCHANGED <<variant, input, productLinks, i, url, attempts, lastError, ret,
                 trace, scrapedData, failedLinks, log, closed, recycledAt,
                 artifacts, writeCalls>>
  /\ UNCHANGED extraction

\* newPage, setUserAgent, setExtraHTTPHeaders, evaluateOnNewDocument of the
\* restart branch.
RecycleConfigure ==
  /\ pc = "recycle_configure"
  /\ \/ /\ pc' = "entry"
        /\ UNCHANGED <<faults, abortAt>>
     \/ /\ CanFault
        /\ Abort("recycle_configure")
  /\ UNCHANGED <<variant, input, productLinks, i, url, attempts, lastError, ret,
                 trace, scrapedData, failedLinks, log, live, launched, closed,
                 recycledAt, artifacts, writeCalls>>
  /\ UNCHANGED extraction

\* `const product = productLinks[i]; const url = product.product_link;`
\* Outside the try: a null entry throws a TypeError nothing catches.
ReadEntry ==
  /\ pc = "entry"
  /\ LET product == productLinks[i + 1] IN
       \/ /\ product.kind = "null"
          /\ pc' = "aborted"
          /\ abortAt' = "entry"
          /\ UNCHANGED <<url, trace, attempts, lastError, ret>>
       \/ /\ product.kind # "null"
          /\ url' = product.product_link
          /\ pc' = IF variant = "retry" THEN "delay" ELSE "goto"
          /\ trace' = <<>>
          /\ attempts' = 0
          /\ lastError' = NoError
          /\ ret' = Unset
          /\ UNCHANGED abortAt
  /\ UNCHANGED <<variant, input, productLinks, i, scrapedData, failedLinks, log,
                 live, launched, closed, recycledAt, artifacts, writeCalls,
                 faults>>
  /\ UNCHANGED extraction

\* Faulty request delay: main calls scrapeProduct without waiting first.
RequestDelaySkipped ==
  /\ pc = "delay"
  /\ pc' = "goto"
  /\ UNCHANGED <<variant, input, productLinks, i, url, attempts, lastError, ret,
                 trace, scrapedData, failedLinks, log, live, launched, closed,
                 recycledAt, artifacts, writeCalls, faults, abortAt>>
  /\ UNCHANGED extraction

\* `await delay(DELAY_MS)` inside main's try, then the call of scrapeProduct
\* (`let attempts = 0` and the first test of its while loop).
RequestDelay ==
  /\ pc = "delay"
  /\ trace' = Append(trace, Event("delay", DELAY_MS))
  /\ pc' = "goto"
  /\ UNCHANGED <<variant, input, productLinks, i, url, attempts, lastError, ret,
                 scrapedData, failedLinks, log, live, launched, closed,
                 recycledAt, artifacts, writeCalls, faults, abortAt>>
  /\ UNCHANGED extraction

\* ----------------------------------------------------------- scrapeProduct

\* A statement inside scrapeProduct's try throws `err`: control moves to the
\* catch clause.
Throw(err) ==
  /\ pc' = "catch"
  /\ lastError' = err
  /\ faults' = faults + 1

\* `await page.goto(url, ...)`. Navigating to undefined always throws.
Goto ==
  /\ pc = "goto"
  /\ trace' = Append(trace, Event("goto", IF variant = "retry" THEN NAV_TIMEOUT_MS ELSE 0))
  /\ \/ /\ url # Undefined
        /\ pc' = "waitForSelector"
        /\ UNCHANGED <<lastError, faults>>
     \/ /\ url # Undefined
        /\ CanFault
        /\ Throw(NavigationTimeout)
     \/ /\ url = Undefined
        /\ Throw(InvalidUrl)
  /\ UNCHANGED <<variant, input, productLinks, i, url, attempts, ret,
                 scrapedData, failedLinks, log, live, launched, closed,
                 recycledAt, artifacts, writeCalls, abortAt>>
  /\ UNCHANGED extraction

\* `await page.waitForSelector('.ProductMeta__Description', {timeout: 10000})`.
WaitForSelector ==
  /\ pc = "waitForSelector"
  /\ trace' = Append(trace, Event("waitForSelector", SELECTOR_TIMEOUT_MS))
  /\ \/ /\ pc' = "evaluate"
        /\ UNCHANGED <<lastError, faults>>
     \/ /\ CanFault
        /\ Throw(ContentNotFound)
  /\ UNCHANGED <<variant, input, productLinks, i, url, attempts, ret,
                 scrapedData, failedLinks, log, live, launched, closed,
                 recycledAt, artifacts, writeCalls, abortAt>>
  /\ UNCHANGED extraction

\* The records page.evaluate can hand back: the images list matters only to
\* the logging orchestrator, which tests it.
EvaluateResults == IF variant = "logging" THEN {ProductData, ProductDataNoImages} ELSE {ProductData}

\* Faulty evaluate step: the record is not returned from inside the loop, so
\* the while loop goes round again after a completed attempt.
EvaluateWithoutReturn ==
  /\ pc = "evaluate"
  /\ trace' = Append(trace, Event("evaluate", 0))
  /\ \/ /\ \E d \in EvaluateResults :
             /\ ret' = d
             /\ pc' = "goto"
        /\ UNCHANGED <<lastError, faults>>
     \/ /\ CanFault
        /\ Throw(ExtractionError)
        /\ UNCHANGED ret
  /\ UNCHANGED <<variant, input, productLinks, i, url, attempts,
                 scrapedData, failedLinks, log, live, launched, closed,
                 recycledAt, artifacts, writeCalls, abortAt>>
  /\ UNCHANGED extraction

\* `const productData = await page.evaluate(...)` and, when it settles, the
\* statements up to the return: `return productData` (retry); the images
\* test, then scrape_date and the return (logging).
Evaluate ==
  /\ pc = "evaluate"
  /\ trace' = Append(trace, Event("evaluate", 0))
  /\ \/ /\ \E d \in EvaluateResults :
             /\ ret' = d
             /\ pc' = IF d = ProductDataNoImages THEN "log_noimages" ELSE "outcome"
        /\ UNCHANGED <<lastError, faults>>
     \/ /\ CanFault
        /\ Throw(ExtractionError)
        /\ UNCHANGED ret
  /\ UNCHANGED <<variant, input, productLinks, i, url, attempts,
                 scrapedData, failedLinks, log, live, launched, closed,
                 recycledAt, artifacts, writeCalls, abortAt>>
  /\ UNCHANGED extraction

\* `logErrorToFile(url, 'No images found for this product')` inside the try
\* of the logging scrapeProduct; an error of the append lands in its catch.
LogNoImages ==
  /\ pc = "log_noimages"
  /\ \/ /\ log' = Append(log, [url |-> url, detail |-> "NoImages"])
        /\ pc' = "outcome"
        /\ UNCHANGED <<lastError, faults, ret>>
     \/ /\ CanFault
        /\ Throw(LogWriteError)
        /\ ret' = Unset
        /\ UNCHANGED log
  /\ UNCHANGED <<variant, input, productLinks, i, url, attempts, trace,
                 scrapedData, failedLinks, live, launched, closed,
                 recycledAt, artifacts, writeCalls, abortAt>>
  /\ UNCHANGED extraction

\* Faulty catch clause: the first error ends the call with null, no retry.
CatchRetryGivesUp ==
  /\ pc = "catch"
  /\ variant = "retry"
  /\ attempts' = attempts + 1
  /\ trace' = Append(trace, Event("delay", RETRY_DELAY_MS))
  /\ pc' = "outcome"
  /\ ret' = Null
  /\ UNCHANGED <<variant, input, productLinks, i, url, lastError,
                 scrapedData, failedLinks, log, live, launched, closed,
                 recycledAt, artifacts, writeCalls, faults, abortAt>>
  /\ UNCHANGED extraction

\* Faulty catch clause: the while test is off by one (`attempts <=
\* RETRY_LIMIT`), allowing a fourth attempt.
CatchRetryOffByOne ==
  /\ pc = "catch"
  /\ variant = "retry"
  /\ attempts' = attempts + 1
  /\ trace' = Append(trace, Event("delay", RETRY_DELAY_MS))
  /\ IF attempts + 1 <= RETRY_LIMIT
       THEN pc' = "goto" /\ UNCHANGED ret
       ELSE pc' = "outcome" /\ ret' = Null
  /\ UNCHANGED <<variant, input, productLinks, i, url, lastError,
                 scrapedData, failedLinks, log, live, launched, closed,
                 recycledAt, artifacts, writeCalls, faults, abortAt>>
  /\ UNCHANGED extraction

\* Faulty catch clause: the browser is closed and a new one launched before
\* the next attempt.
CatchRetryNewSession ==
  /\ pc = "catch"
  /\ variant = "retry"
  /\ attempts' = attempts + 1
  /\ trace' = Append(trace, Event("delay", RETRY_DELAY_MS))
  /\ closed' = closed + 1
  /\ launched' = launched + 1
  /\ IF attempts + 1 < RETRY_LIMIT
       THEN pc' = "goto" /\ UNCHANGED ret
       ELSE pc' = "outcome" /\ ret' = Null
  /\ UNCHANGED <<variant, input, productLinks, i, url, lastError,
                 scrapedData, failedLinks, log, live,
                 recycledAt, artifacts, writeCalls, faults, abortAt>>
  /\ UNCHANGED extraction

\* Faulty catch clause: no delay after the attempt that uses up the limit.
CatchRetryNoFinalDelay ==
  /\ pc = "catch"
  /\ variant = "retry"
  /\ attempts' = attempts + 1
  /\ IF attempts + 1 < RETRY_LIMIT
       THEN /\ trace' = Append(trace, Event("delay", RETRY_DELAY_MS))
            /\ pc' = "goto"
            /\ UNCHANGED ret
       ELSE /\ pc' = "outcome"
            /\ ret' = Null
            /\ UNCHANGED trace
  /\ UNCHANGED <<variant, input, productLinks, i, url, lastError,
                 scrapedData, failedLinks, log, live, launched, closed,
                 recycledAt, artifacts, writeCalls, faults, abortAt>>
  /\ UNCHANGED extraction

\* The catch clause of the retrying scrapeProduct: `attempts++`,
\* `await delay(2000)`, then the while test; `return null` when it fails.
CatchRetry ==
  /\ pc = "catch"
  /\ variant = "retry"
  /\ attempts' = attempts + 1
  /\ trace' = Append(trace, Event("delay", RETRY_DELAY_MS))
  /\ IF attempts + 1 < RETRY_LIMIT
       THEN pc' = "goto" /\ UNCHANGED ret
       ELSE pc' = "outcome" /\ ret' = Null
  /\ UNCHANGED <<variant, input, productLinks, i, url, lastError,
                 scrapedData, failedLinks, log, live, launched, closed,
                 recycledAt, artifacts, writeCalls, faults, abortAt>>
  /\ UNCHANGED extraction

\* The catch clause of the logging scrapeProduct: logErrorToFile, then
\* `return null`. An error of the append leaves scrapeProduct and lands in
\* main's catch.
CatchLog ==
  /\ pc = "catch"
  /\ variant = "logging"
  /\ \/ /\ log' = Append(log, [url |-> url, detail |-> lastError])
        /\ ret' = Null
        /\ pc' = "outcome"
        /\ UNCHANGED <<lastError, faults>>
     \/ /\ CanFault
        /\ pc' = "main_catch"
        /\ lastError' = LogWriteError
        /\ faults' = faults + 1
        /\ UNCHANGED <<log, ret>>
  /\ UNCHANGED <<variant, input, productLinks, i, url, attempts, trace,
                 scrapedData, failedLinks, live, launched, closed,
                 recycledAt, artifacts, writeCalls, abortAt>>
  /\ UNCHANGED extraction

\* ------------------------------------------------------- outcome handling

\* scrapedData.push({ url, data }) / failedLinks.push(url); `pos` records the
\* index of the target the entry was pushed for.
Succeeded(k, u, d) == [pos |-> k, url |-> u, data |-> d]

Failed(k, u) == [pos |-> k, url |-> u]

\* The end of one iteration of main's loop: the increment, back to the loop
\* head; the iteration's block-scoped names (url, data) and the finished
\* call of scrapeProduct (attempts, the caught error) go out of scope.
NextIteration ==
  /\ i' = i + 1
  /\ pc' = "loop"
  /\ url' = Undefined
  /\ attempts' = 0
  /\ lastError' = NoError
  /\ ret' = Unset
  /\ trace' = <<>>

\* Faulty outcome handling: the `if (data)` guard is missing, so a failed
\* target is pushed to scrapedData as well as to failedLinks.
OutcomePushesBoth ==
  /\ pc = "outcome"
  /\ scrapedData' = Append(scrapedData, Succeeded(i, url, ret))
  /\ IF ret # Null
       THEN UNCHANGED failedLinks
       ELSE failedLinks' = Append(failedLinks, Failed(i, url))
  /\ NextIteration
  /\ UNCHANGED <<variant, input, productLinks, log, live, launched, closed,
                 recycledAt, artifacts, writeCalls, faults, abortAt>>
  /\ UNCHANGED extraction

\* Faulty outcome handling: a URL a collection already holds is not pushed
\* to it again.
OutcomeSkipsDuplicates ==
  /\ pc = "outcome"
  /\ IF ret # Null
       THEN /\ scrapedData' =
                 IF \E j \in DOMAIN scrapedData : scrapedData[j].url = url
                   THEN scrapedData
                   ELSE Append(scrapedData, Succeeded(i, url, ret))
            /\ UNCHANGED failedLinks
       ELSE /\ failedLinks' =
                 IF \E j \in DOMAIN failedLinks : failedLinks[j].url = url
                   THEN failedLinks
                   ELSE Append(failedLinks, Failed(i, url))
            /\ UNCHANGED scrapedData
  /\ NextIteration
  /\ UNCHANGED <<variant, input, productLinks, log, live, launched, closed,
                 recycledAt, artifacts, writeCalls, faults, abortAt>>
  /\ UNCHANGED extraction

\* `if (data) scrapedData.push(...) else failedLinks.push(url)`, then the
\* loop's increment.
Outcome ==
  /\ pc = "outcome"
  /\ IF ret # Null
       THEN /\ scrapedData' = Append(scrapedData, Succeeded(i, url, ret))
            /\ UNCHANGED failedLinks
       ELSE /\ failedLinks' = Append(failedLinks, Failed(i, url))
            /\ UNCHANGED scrapedData
  /\ NextIteration
  /\ UNCHANGED <<variant, input, productLinks, log, live, launched, closed,
                 recycledAt, artifacts, writeCalls, faults, abortAt>>
  /\ UNCHANGED extraction

\* main's catch: `failedLinks.push(url)`, then the loop's increment.
MainCatch ==
  /\ pc = "main_catch"
  /\ failedLinks' = Append(failedLinks, Failed(i, url))
  /\ NextIteration
  /\ UNCHANGED <<variant, input, productLinks, scrapedData, log, live, launched,
                 closed, recycledAt, artifacts, writeCalls, faults, abortAt>>
  /\ UNCHANGED extraction

\* ------------------------------------------------------------------ drain

\* Faulty drain: the results are written while the browser is still open.
CloseSkipped ==
  /\ pc = "close"
  /\ pc' = "write_products"
  /\ UNCHANGED <<variant, input, productLinks, i, url, attempts, lastError, ret,
                 trace, scrapedData, failedLinks, log, live, launched, closed,
                 recycledAt, artifacts, writeCalls, faults, abortAt>>
  /\ UNCHANGED extraction

\* `await browser.close()` after the loop.
Close ==
  /\ pc = "close"
  /\ \/ /\ pc' = "write_products"
        /\ live' = live - 1
        /\ closed' = closed + 1
        /\ UNCHANGED <<faults, abortAt>>
     \/ /\ CanFault
        /\ Abort("close")
        /\ UNCHANGED <<live, closed>>
  /\ UNCHANGED <<variant, input, productLinks, i, url, attempts, lastError, ret,
                 trace, scrapedData, failedLinks, log, launched, recycledAt,
                 artifacts, writeCalls>>
  /\ UNCHANGED extraction

\* fs.writeFileSync of the scraped data: unconditional.
WriteProducts ==
  /\ pc = "write_products"
  /\ writeCalls' = Append(writeCalls, "products")
  /\ \/ /\ artifacts' = artifacts \cup {"products"}
        /\ pc' = "write_failed"
        /\ UNCHANGED <<faults, abortAt>>
     \/ /\ CanFault
        /\ Abort("write_products")
        /\ UNCHANGED artifacts
  /\ UNCHANGED <<variant, input, productLinks, i, url, attempts, lastError, ret,
                 trace, scrapedData, failedLinks, log, live, launched, closed,
                 recycledAt>>
  /\ UNCHANGED extraction

\* Faulty failure write: the `failedLinks.length > 0` guard is missing.
WriteFailedUnconditional ==
  /\ pc = "write_failed"
  /\ writeCalls' = Append(writeCalls, "failed_links")
  /\ \/ /\ artifacts' = artifacts \cup {"failed_links"}
        /\ pc' = "done"
        /\ UNCHANGED <<faults, abortAt>>
     \/ /\ CanFault
        /\ Abort("write_failed")
        /\ UNCHANGED artifacts
  /\ UNCHANGED <<variant, input, productLinks, i, url, attempts, lastError, ret,
                 trace, scrapedData, failedLinks, log, live, launched, closed,
                 recycledAt>>
  /\ UNCHANGED extraction

\* `if (failedLinks.length > 0) fs.writeFileSync(...)`.
WriteFailed ==
  /\ pc = "write_failed"
  /\ IF Len(failedLinks) > 0
       THEN /\ writeCalls' = Append(writeCalls, "failed_links")
            /\ \/ /\ artifacts' = artifacts \cup {"failed_links"}
                  /\ pc' = "done"
                  /\ UNCHANGED <<faults, abortAt>>
               \/ /\ CanFault
                  /\ Abort("write_failed")
                  /\ UNCHANGED artifacts
       ELSE /\ pc' = "done"
            /\ UNCHANGED <<writeCalls, artifacts, faults, abortAt>>
  /\ UNCHANGED <<variant, input, productLinks, i, url, attempts, lastError, ret,
                 trace, scrapedData, failedLinks, log, live, launched, closed,
                 recycledAt>>
  /\ UNCHANGED extraction

\* ------------------------------------------------------------ specification

Next ==
  \/ Launch
  \/ Configure
  \/ LoopHead
  \/ RecycleClose
  \/ RecycleLaunch
  \/ RecycleConfigure
  \/ ReadEntry
  \/ RequestDelay
  \/ Goto
  \/ WaitForSelector
  \/ Evaluate
  \/ LogNoImages
  \/ CatchRetry
  \/ CatchLog
  \/ Outcome
  \/ MainCatch
  \/ Close
  \/ WriteProducts
  \/ WriteFailed

Spec == Init /\ [][Next]_vars

\* ========================================================== page extractor
\*
\* The callback of page.evaluate, modelled on its own: it reads a document
\* and builds the record `data`. Three extractors exist:
\*   "basic" - src/unimed-scraper.js lines 37-107 (the same text at lines
\*             214-283 of that file);
\*   "dedup" - src/unnamed/part_000 lines 25-111: images from three sources,
\*             normalised and deduplicated;
\*   "html"  - src/unnamed/part_000 lines 202-298: sections collected in
\*             tempData and rendered as HTML tables.
\*
\* A string is a sequence of tokens: a word (a maximal run of characters
\* other than the separators) or one separator character (" ", "\t", "_",
\* ":", "?"), and in URLs also the scheme "https:", the "//" that follows
\* it and the placeholder "{width}". '' is <<>>. An object is the sequence
\* of its <<key, value>> properties in property order.

\* ----------------------------------------------------------- string methods

Range(s) == {s[j] : j \in DOMAIN s}

Whitespace == {" ", "\t"}

\* String.prototype.trim
Trim(s) ==
  LET solid == {j \in DOMAIN s : s[j] \notin Whitespace} IN
    IF solid = {} THEN <<>>
    ELSE SubSeq(s, CHOOSE j \in solid : \A k \in solid : j <= k,
                   CHOOSE j \in solid : \A k \in solid : j >= k)

\* toLowerCase of one word.
Lower(w) ==
  CASE w = "OEM" -> "oem"
    [] w = "Part" -> "part"
    [] w = "Number" -> "number"
    [] w = "Cross" -> "cross"
    [] w = "References" -> "references"
    [] w = "Reference" -> "reference"
    [] w = "Compatibility" -> "compatibility"
    [] w = "Model" -> "model"
    [] w = "X" -> "x"
    [] w = "Technical" -> "technical"
    [] w = "Specifications" -> "specifications"
    [] w = "Images" -> "images"
    [] w = "Notes" -> "notes"
    [] w = "ABC" -> "abc"
    [] w = "XYZ-9" -> "xyz-9"
    [] w = "QRS-1" -> "qrs-1"
    [] OTHER -> w

\* String.prototype.toLowerCase
ToLowerCase(s) == [j \in DOMAIN s |-> Lower(s[j])]

\* s.replace(/ /g, '_'): every space, and only spaces.
ReplaceSpaces(s) == [j \in DOMAIN s |-> IF s[j] = " " THEN "_" ELSE s[j]]

\* s.replace(':', ''): a string pattern replaces the first occurrence only.
RemoveFirstColon(s) ==
  LET at == {j \in DOMAIN s : s[j] = ":"} IN
    IF at = {} THEN s
    ELSE LET k == CHOOSE j \in at : \A m \in at : j <= m IN
           SubSeq(s, 1, k - 1) \o SubSeq(s, k + 1, Len(s))

\* s.includes(needle)
Includes(s, needle) ==
  \E k \in 0 .. (Len(s) - Len(needle)) : SubSeq(s, k + 1, k + Len(needle)) = needle

\* s.startsWith('http')
StartsWithHttp(s) == s # <<>> /\ s[1] \in {"http:", "https:"}

\* s.split('?')[0]
BeforeQuery(s) ==
  LET at == {j \in DOMAIN s : s[j] = "?"} IN
    IF at = {} THEN s
    ELSE SubSeq(s, 1, (CHOOSE j \in at : \A m \in at : j <= m) - 1)

\* ------------------------------------------------------------------ objects

Keys(obj) == {obj[j][1] : j \in DOMAIN obj}

\* obj[key] of a key the object has.
Get(obj, key) == obj[CHOOSE j \in DOMAIN obj : obj[j][1] = key][2]

\* An integer-like key: it is an array index, and in an object it is
\* enumerated before the other keys. "0" is the only such key drawn.
IsIndex(key) == key = <<"0">>

\* Faulty property write: a key the object already has keeps its value.
PutKeepsFirst(obj, key, value) ==
  IF key \in Keys(obj) THEN obj
  ELSE IF IsIndex(key) THEN <<<<key, value>>>> \o obj
  ELSE Append(obj, <<key, value>>)

\* obj[key] = value
Put(obj, key, value) ==
  IF key \in Keys(obj)
    THEN [j \in DOMAIN obj |-> IF obj[j][1] = key THEN <<key, value>> ELSE obj[j]]
  ELSE IF IsIndex(key) THEN <<<<key, value>>>> \o obj
  ELSE Append(obj, <<key, value>>)

\* array[key] = value for an index key: element 0 is set, created if absent.
SetIndex(array, key, value) ==
  IF Len(array) = 0 THEN <<value>> ELSE [array EXCEPT ![1] = value]

\* ---------------------------------------------------------------- documents

\* A row `tr`: the texts of its td cells, and whether it holds a `p strong`
\* element; in the rows drawn the emphasized label is the first cell's text.
Row(cells, strong) == [cells |-> cells, strong |-> strong]

\* tr.innerText: the cells' texts, separated by tabs.
RECURSIVE JoinCells(_)
JoinCells(cells) ==
  IF Len(cells) = 0 THEN <<>>
  ELSE IF Len(cells) = 1 THEN cells[1]
  ELSE cells[1] \o <<"\t">> \o JoinCells(Tail(cells))

InnerText(row) == JoinCells(row.cells)

\* The innerText of the row's first `p strong` element.
StrongText(row) == row.cells[1]

\* First rows a table is drawn with.
FirstRows ==
  { Row(<< <<"OEM", " ", "Part", " ", "Number", " ", "Cross", " ", "References", ":">> >>, TRUE),
    Row(<< <<"Compatibility">>, <<"Model", " ", "X">> >>, TRUE),
    Row(<< <<"Technical", " ", "Specifications">> >>, TRUE),
    Row(<< <<"Technical", " ", "Specifications">> >>, FALSE),
    Row(<< <<"Images">> >>, TRUE),
    Row(<< <<"Part", " ", "Number">> >>, TRUE),
    Row(<< <<"OEM", " ", "Reference">> >>, TRUE),
    Row(<< <<"Notes">> >>, TRUE) }

\* Later rows a table is drawn with: two cells, except the last.
LaterRows ==
  { Row(<< <<"ABC", " ", "100">>, <<"XYZ-9">> >>, FALSE),
    Row(<< <<"abc", " ", "100", " ">>, <<" ", "QRS-1">> >>, FALSE),
    Row(<< <<"0">>, <<"x">> >>, FALSE),
    Row(<< <<"a">>, <<"b">>, <<"c">> >>, FALSE) }

\* Values of the attribute an img element is selected by.
ImageCandidates ==
  { <<"//", "cdn/a.jpg", "?", "v=1">>,
    <<"https:", "//", "cdn/a.jpg", "?", "v=2">>,
    <<"//", "cdn/b.jpg">>,
    <<"//", "cdn/c_", "{width}", "x.jpg">>,
    <<"img/r.jpg">>,
    <<>> }

TitleText == <<" ", "Oil", " ", "Filter">>

SkuText == <<"UM-1">>

SeqsUpTo(S, n) == UNION {[1 .. k -> S] : k \in 0 .. n}

\* The numbers of later rows of the tables of a document, table by table:
\* at least one each, at most `budget` in all.
RECURSIVE Shapes(_)
Shapes(budget) ==
  {<<>>} \cup UNION {{<<k>> \o rest : rest \in Shapes(budget - k)} : k \in 1 .. budget}

\* The sum of the first n numbers of a shape.
RECURSIVE Sum(_, _)
Sum(shape, n) == IF n = 0 THEN 0 ELSE shape[n] + Sum(shape, n - 1)

\* The tables of the given shape: the t-th has the t-th first row, followed
\* by its share of the later rows.
Tables(shape, firsts, laters) ==
  [t \in DOMAIN shape |->
     <<firsts[t]>> \o SubSeq(laters, Sum(shape, t - 1) + 1, Sum(shape, t))]

\* A document: the h1 title and the SKU span (at most one of each is read),
\* the attribute values of the img elements of the three sources, the
\* tables of the description, and the aspect whose extraction throws.
Document(title, sku, primary, fallback, lazy, tables, throws) ==
  [title |-> title, sku |-> sku, primary |-> primary, fallback |-> fallback,
   lazy |-> lazy, tables |-> tables, throws |-> throws]

OemTable ==
  << Row(<< <<"OEM", " ", "Part", " ", "Number", " ", "Cross", " ", "References", ":">> >>, TRUE),
     Row(<< <<"ABC", " ", "100">>, <<"XYZ-9">> >>, FALSE) >>

\* Documents that differ in title and SKU and in the aspect that throws.
HeadDocs ==
  { Document(title, sku, << <<"//", "cdn/b.jpg">> >>, <<>>, <<>>, <<OemTable>>, throws) :
      title \in {<<>>, <<TitleText>>}, sku \in {<<>>, <<SkuText>>},
      throws \in {"none", "name", "images", "tables"} }

\* A document that differs from the others in its img elements only.
ImageDoc(primary, fallback, lazy) ==
  Document(<<TitleText>>, <<SkuText>>, primary, fallback, lazy, <<>>, "none")

\* A document that differs from the others in its tables only.
TableDoc(tables) ==
  Document(<<TitleText>>, <<SkuText>>, << <<"//", "cdn/a.jpg", "?", "v=1">> >>,
           <<>>, <<>>, tables, "none")

\* ------------------------------------------------------------ the callback

Sections == {"oem_reference", "compatibility", "technical_specifications"}

\* `const data = {...}`: strings '', an empty array, empty objects; in the
\* "html" extractor the sections are strings and there is one more field.
InitialData(e) ==
  IF e = "html"
    THEN [product_name |-> <<>>, part_number |-> <<>>, images |-> <<>>,
          oem_reference |-> <<>>, compatibility |-> <<>>,
          technical_specifications |-> <<>>, product_category_string |-> <<>>]
    ELSE [product_name |-> <<>>, part_number |-> <<>>, images |-> <<>>,
          oem_reference |-> <<>>, compatibility |-> <<>>,
          technical_specifications |-> <<>>]

\* `const tempData = { oem_reference: {}, compatibility: {},
\* technical_specifications: {} }`
InitialTempData ==
  [oem_reference |-> <<>>, compatibility |-> <<>>, technical_specifications |-> <<>>]

\* Product name and part number: the trimmed innerText of the element, if
\* the document has one.
NameAndPartNumber(d, document) ==
  [d EXCEPT !.product_name = IF document.title # <<>> THEN Trim(document.title[1]) ELSE @,
            !.part_number = IF document.sku # <<>> THEN Trim(document.sku[1]) ELSE @]

\* imageUrls.add(url): a Set keeps insertion order and ignores a value it
\* already holds.
SetAdd(set, value) == IF value \in Range(set) THEN set ELSE Append(set, value)

\* addValidImageUrl
AddValidImageUrl(imageUrls, imgSrc) ==
  IF imgSrc # <<>> /\ ~Includes(imgSrc, <<"{width}">>)
    THEN LET fullUrl == IF StartsWithHttp(imgSrc) THEN imgSrc ELSE <<"https:">> \o imgSrc
             urlWithoutQuery == BeforeQuery(fullUrl)
         IN SetAdd(imageUrls, urlWithoutQuery)
    ELSE imageUrls

\* elements.forEach(img => addValidImageUrl(img.getAttribute(...)))
RECURSIVE AddAll(_, _)
AddAll(imageUrls, srcs) ==
  IF srcs = <<>> THEN imageUrls
  ELSE AddAll(AddValidImageUrl(imageUrls, Head(srcs)), Tail(srcs))

\* Faulty test: the fallback gallery is read whatever the slideshow gave.
UseFallbackAlways(imageUrls) == TRUE

\* `if (imageUrls.size === 0)`
UseFallback(imageUrls) == Len(imageUrls) = 0

\* imageElements.forEach: `if (imgSrc) data.images.push(`https:${imgSrc}`)`
RECURSIVE PushAll(_, _)
PushAll(images, srcs) ==
  IF srcs = <<>> THEN images
  ELSE PushAll(IF Head(srcs) # <<>> THEN Append(images, <<"https:">> \o Head(srcs))
               ELSE images,
               Tail(srcs))

\* The images step of the extractor e.
CollectImages(e, d, document) ==
  IF e = "dedup"
    THEN LET primary == AddAll(<<>>, document.primary)
             gallery == IF UseFallback(primary) THEN AddAll(primary, document.fallback)
                        ELSE primary
         IN [d EXCEPT !.images = AddAll(gallery, document.lazy)]
    ELSE [d EXCEPT !.images = PushAll(@, document.primary)]

OemNeedle == <<"oem", "_", "part", "_", "number", "_", "cross", "_", "references">>

CompatibilityNeedle == <<"compatibility">>

TechnicalNeedle == <<"technical", "_", "specifications">>

\* `let sectionName = ''` and the `if` that sets it from the first row.
SectionName(e, rows) ==
  IF Len(rows) > 0 /\ rows[1].strong
    THEN LET text == IF e = "html"
                       THEN ReplaceSpaces(ToLowerCase(Trim(StrongText(rows[1]))))
                       ELSE ReplaceSpaces(ToLowerCase(RemoveFirstColon(Trim(InnerText(rows[1])))))
         IN IF Includes(text, OemNeedle) THEN <<"oem", "_", "reference">>
            ELSE IF Includes(text, CompatibilityNeedle) THEN <<"compatibility">>
            ELSE IF Includes(text, TechnicalNeedle) THEN <<"technical", "_", "specifications">>
            ELSE text
    ELSE <<>>

\* The own property of `data` (or of tempData) a string names, "" if none.
Property(name) ==
  CASE name = <<"product", "_", "name">> -> "product_name"
    [] name = <<"part", "_", "number">> -> "part_number"
    [] name = <<"images">> -> "images"
    [] name = <<"oem", "_", "reference">> -> "oem_reference"
    [] name = <<"compatibility">> -> "compatibility"
    [] name = <<"technical", "_", "specifications">> -> "technical_specifications"
    [] OTHER -> ""

\* `sectionName && data[sectionName]`: '' and undefined are falsy, a
\* non-empty string, an array and an object are truthy.
Truthy(d, sectionName) ==
  /\ sectionName # <<>>
  /\ LET f == Property(sectionName) IN
       CASE f \in {"product_name", "part_number"} -> d[f] # <<>>
         [] f = "images" -> TRUE
         [] f \in Sections -> TRUE
         [] OTHER -> FALSE

\* `data[sectionName][key] = value`, as the returned record shows it: a
\* property of a section object; an element of the images array when the
\* key is an index (another property of the array is not serialised);
\* nothing for a string, whose properties cannot be set.
Assign(d, sectionName, key, value) ==
  LET f == Property(sectionName) IN
    CASE f \in Sections -> [d EXCEPT ![f] = Put(@, key, value)]
      [] f = "images" -> IF IsIndex(key) THEN [d EXCEPT !.images = SetIndex(@, key, value)]
                         ELSE d
      [] OTHER -> d

\* Faulty key: the cell text is not lowercased.
KeyOfNotLowered(e, cell) ==
  IF e = "html" THEN Trim(cell) ELSE ReplaceSpaces(Trim(cell))

\* `const key = ...` of a row's first cell.
KeyOf(e, cell) ==
  IF e = "html" THEN Trim(cell) ELSE ReplaceSpaces(ToLowerCase(Trim(cell)))

\* The body of the row loop of the "basic" and "dedup" extractors.
RowStep(e, d, sectionName, row) ==
  IF Len(row.cells) = 2
    THEN LET key == KeyOf(e, row.cells[1])
             value == Trim(row.cells[2])
         IN IF Truthy(d, sectionName) THEN Assign(d, sectionName, key, value) ELSE d
    ELSE d

\* `for (let i = 1; i < rows.length; i++)`: from the second row on.
RECURSIVE RowLoop(_, _, _, _, _)
RowLoop(e, d, sectionName, rows, j) ==
  IF j > Len(rows) THEN d
  ELSE RowLoop(e, RowStep(e, d, sectionName, rows[j]), sectionName, rows, j + 1)

\* The callback of tables.forEach in the "basic" and "dedup" extractors.
TableStep(e, d, rows) == RowLoop(e, d, SectionName(e, rows), rows, 2)

\* The callback of rows.forEach in the "html" extractor.
TempRowStep(e, temp, f, row) ==
  IF Len(row.cells) = 2
    THEN LET key == KeyOf(e, row.cells[1])
             value == Trim(row.cells[2])
         IN IF key # <<>> THEN [temp EXCEPT ![f] = Put(@, key, value)] ELSE temp
    ELSE temp

\* rows.forEach: every row, the first included.
RECURSIVE TempRowLoop(_, _, _, _, _)
TempRowLoop(e, temp, f, rows, j) ==
  IF j > Len(rows) THEN temp
  ELSE TempRowLoop(e, TempRowStep(e, temp, f, rows[j]), f, rows, j + 1)

\* The callback of tables.forEach in the "html" extractor:
\* `if (!sectionName || !tempData[sectionName]) return;` then the rows.
TempTableStep(e, temp, rows) ==
  LET sectionName == SectionName(e, rows) IN
    IF sectionName = <<>> \/ Property(sectionName) \notin Sections THEN temp
    ELSE TempRowLoop(e, temp, Property(sectionName), rows, 1)

\* The rows createTableHTML renders, in property order; `value || ''`.
RECURSIVE TableRowsHTML(_)
TableRowsHTML(obj) ==
  IF obj = <<>> THEN <<>>
  ELSE <<"<tr><td>">> \o obj[1][1] \o <<"</td><td>">> \o obj[1][2] \o <<"</td></tr>">>
       \o TableRowsHTML(Tail(obj))

\* createTableHTML
CreateTableHTML(obj) ==
  IF Len(obj) = 0 THEN <<>>
  ELSE <<"<table border=\"1\">">> \o TableRowsHTML(obj) \o <<"</table>">>

\* tempData.technical_specifications['Category'] || ''
CategoryOf(temp) ==
  IF <<"Category">> \in Keys(temp.technical_specifications)
    THEN Get(temp.technical_specifications, <<"Category">>)
    ELSE <<>>

\* The last statements of the "html" extractor's try.
Rendered(d, temp) ==
  [d EXCEPT !.product_category_string = CategoryOf(temp),
            !.oem_reference = CreateTableHTML(temp.oem_reference),
            !.compatibility = CreateTableHTML(temp.compatibility),
            !.technical_specifications = CreateTableHTML(temp.technical_specifications)]

\* The statement after the last table.
AfterTables(e) == IF e = "html" THEN "render" ELSE "returned"

\* The state of the orchestrator while the page.evaluate of its first
\* target runs.
InEvaluate ==
  /\ variant = (IF extractor = "dedup" THEN "logging" ELSE "retry")
  /\ input = "array"
  /\ productLinks = <<LinkEntry(0)>>
  /\ pc = "evaluate"
  /\ i = 0
  /\ url = LinkEntry(0).product_link
  /\ attempts = 0
  /\ lastError = NoError
  /\ ret = Unset
  /\ trace = (IF extractor = "dedup"
                THEN <<Event("goto", 0), Event("waitForSelector", SELECTOR_TIMEOUT_MS)>>
                ELSE <<Event("delay", DELAY_MS), Event("goto", NAV_TIMEOUT_MS),
                       Event("waitForSelector", SELECTOR_TIMEOUT_MS)>>)
  /\ scrapedData = <<>>
  /\ failedLinks = <<>>
  /\ log = <<>>
  /\ live = 1
  /\ launched = 1
  /\ closed = 0
  /\ recycledAt = <<>>
  /\ artifacts = {}
  /\ writeCalls = <<>>
  /\ faults = 0
  /\ abortAt = ""

\* The callback is entered on a document: `data` is as declared. The
\* document differs from a plain one in its head, in its img elements or in
\* its tables. Only the "dedup" extractor queries the fallback gallery and
\* the lazy images, so for the others those sources are left empty; the
\* table code of the "dedup" extractor is that of the "basic" one, statement
\* for statement, so the tables are varied for "basic" and "html".
ExtractInit ==
  /\ extractor \in {"basic", "dedup", "html"}
  /\ \/ doc \in HeadDocs
     \/ \E primary \in SeqsUpTo(ImageCandidates, MaxImages) :
          \E fallback \in SeqsUpTo(ImageCandidates,
                                   IF extractor = "dedup" THEN MaxImages - Len(primary) ELSE 0) :
            \E lazy \in SeqsUpTo(ImageCandidates,
                                 IF extractor = "dedup"
                                   THEN MaxImages - Len(primary) - Len(fallback) ELSE 0) :
              doc = ImageDoc(primary, fallback, lazy)
     \/ /\ extractor # "dedup"
        /\ \E shape \in Shapes(MaxRows) :
             \E firsts \in [DOMAIN shape -> FirstRows] :
               \E laters \in [1 .. Sum(shape, Len(shape)) -> LaterRows] :
                 doc = TableDoc(Tables(shape, firsts, laters))
  /\ data = InitialData(extractor)
  /\ tempData = InitialTempData
  /\ xpc = "name"
  /\ tableIx = 0
  /\ InEvaluate

\* An error thrown inside the try is caught by its one catch clause, which
\* logs to the console; `return data` follows.
Caught ==
  /\ xpc' = "returned"
  /\ UNCHANGED <<data, tempData, tableIx>>

\* Product name and part number.
ExtractName ==
  /\ xpc = "name"
  /\ IF doc.throws = "name"
       THEN Caught
       ELSE /\ data' = NameAndPartNumber(data, doc)
            /\ xpc' = "images"
            /\ UNCHANGED <<tempData, tableIx>>
  /\ UNCHANGED <<extractor, doc>>
  /\ UNCHANGED orchestrator

\* The images, then the query for the tables.
ExtractImages ==
  /\ xpc = "images"
  /\ IF doc.throws = "images"
       THEN Caught
       ELSE /\ data' = CollectImages(extractor, data, doc)
            /\ xpc' = IF Len(doc.tables) > 0 THEN "tables" ELSE AfterTables(extractor)
            /\ UNCHANGED <<tempData, tableIx>>
  /\ UNCHANGED <<extractor, doc>>
  /\ UNCHANGED orchestrator

\* One call of the callback of tables.forEach.
ExtractTable ==
  /\ xpc = "tables"
  /\ IF doc.throws = "tables"
       THEN Caught
       ELSE /\ IF extractor = "html"
                 THEN /\ tempData' = TempTableStep(extractor, tempData, doc.tables[tableIx + 1])
                      /\ UNCHANGED data
                 ELSE /\ data' = TableStep(extractor, data, doc.tables[tableIx + 1])
                      /\ UNCHANGED tempData
            /\ tableIx' = tableIx + 1
            /\ xpc' = IF tableIx + 1 < Len(doc.tables) THEN "tables" ELSE AfterTables(extractor)
  /\ UNCHANGED <<extractor, doc>>
  /\ UNCHANGED orchestrator

\* The "html" extractor's category and rendering, then `return data`.
Render ==
  /\ xpc = "render"
  /\ data' = Rendered(data, tempData)
  /\ xpc' = "returned"
  /\ UNCHANGED <<extractor, doc, tempData, tableIx>>
  /\ UNCHANGED orchestrator

ExtractNext ==
  \/ ExtractName
  \/ ExtractImages
  \/ ExtractTable
  \/ Render

ExtractSpec == ExtractInit /\ [][ExtractNext]_vars

\* ------------------------------------------------------- reading the state

\* The indices of the targets a collection holds an entry for.
PosOf(seq) == {seq[j].pos : j \in DOMAIN seq}

\* The number of events of kind `op` in a trace.
Count(t, op) == Cardinality({j \in DOMAIN t : t[j].op = op})

\* The run is inside the handling of target i (from reading its entry to
\* the push of its outcome).
InTarget == pc \in {"entry", "delay", "goto", "waitForSelector", "evaluate",
                    "log_noimages", "catch", "outcome", "main_catch"}

\* The loop has ended normally and the run is draining.
Draining == pc \in {"close", "write_products", "write_failed", "done"}

\* ------------------------------------------------------------------ claims

\* C1: every target the loop has processed, identified by its position in
\* the list, has exactly one entry in exactly one of scrapedData and
\* failedLinks, and that entry carries the target's URL: after index k is
\* processed the two collections hold k + 1 entries together, and once the
\* loop has ended they partition the whole list.
C1_ExactlyOnePartition ==
  /\ Len(scrapedData) + Len(failedLinks) = i
  /\ Cardinality(PosOf(scrapedData)) = Len(scrapedData)
  /\ Cardinality(PosOf(failedLinks)) = Len(failedLinks)
  /\ PosOf(scrapedData) \cap PosOf(failedLinks) = {}
  /\ PosOf(scrapedData) \cup PosOf(failedLinks) = 0 .. (i - 1)
  /\ \A j \in DOMAIN scrapedData :
       scrapedData[j].url = productLinks[scrapedData[j].pos + 1].product_link
  /\ \A j \in DOMAIN failedLinks :
       failedLinks[j].url = productLinks[failedLinks[j].pos + 1].product_link
  /\ Draining => i = Len(productLinks)

\* A finished run over at least three targets with entries in both
\* collections.
C1_Witness ==
  /\ pc = "done"
  /\ Len(productLinks) >= 3
  /\ Len(scrapedData) >= 1
  /\ Len(failedLinks) >= 1

\* The trace of a target of the retry orchestrator all of whose navigations
\* fail: the inter-request delay, then RETRY_LIMIT times a navigation
\* followed by the retry delay.
AllNavigationsFailTrace ==
  <<Event("delay", DELAY_MS),
    Event("goto", NAV_TIMEOUT_MS), Event("delay", RETRY_DELAY_MS),
    Event("goto", NAV_TIMEOUT_MS), Event("delay", RETRY_DELAY_MS),
    Event("goto", NAV_TIMEOUT_MS), Event("delay", RETRY_DELAY_MS)>>

\* No navigation of the current target has succeeded: nothing but
\* navigations and delays has been awaited for it.
NoNavigationSucceeded == \A j \in DOMAIN trace : trace[j].op \in {"goto", "delay"}

\* C2: in the retrying scrapeProduct a target whose navigation fails on
\* every attempt gets exactly RETRY_LIMIT navigations, one at a time, every
\* navigation after the first directly preceded by the fixed retry delay that
\* follows the failed attempt before it, and scrapeProduct returns null; no
\* target ever gets more than RETRY_LIMIT navigations.
C2_ExactlyRetryLimitAttempts ==
  variant = "retry" =>
    /\ Count(trace, "goto") <= RETRY_LIMIT
    /\ \A j \in DOMAIN trace :
         (trace[j].op = "goto" /\ j > 2) => trace[j - 1] = Event("delay", RETRY_DELAY_MS)
    /\ (pc = "outcome" /\ NoNavigationSucceeded) =>
         /\ trace = AllNavigationsFailTrace
         /\ Count(trace, "goto") = RETRY_LIMIT
         /\ attempts = RETRY_LIMIT
         /\ ret = Null

\* scrapeProduct has returned for a well-formed target whose three
\* navigations all timed out.
C2_Witness ==
  /\ variant = "retry"
  /\ pc = "outcome"
  /\ url # Undefined
  /\ NoNavigationSucceeded
  /\ lastError = NavigationTimeout
  /\ Count(trace, "goto") = RETRY_LIMIT

\* The error a return value of scrapeProduct carries: neither null nor the
\* record page.evaluate built has one.
ErrorOf(r) == NoError

\* C3 as stated: when all attempts have failed the value scrapeProduct
\* returns wraps the error of the last attempt.
C3_FailureWrapsLastError ==
  (variant = "retry" /\ pc = "outcome" /\ ret = Null /\ url # Undefined) =>
     ErrorOf(ret) = lastError

\* C3, amended: the retrying scrapeProduct returns the record of the first
\* attempt in which goto, waitForSelector and evaluate all complete, and
\* makes no attempt after it (an evaluate that is followed by anything is a
\* failed one, followed by the retry delay); once RETRY_LIMIT attempts have
\* failed it returns a bare null, which carries no error: the error of the
\* last attempt is caught and printed, not returned.
C3_FirstSuccessOrBareNull ==
  variant = "retry" =>
    /\ \A j \in DOMAIN trace :
         (trace[j].op = "evaluate" /\ j < Len(trace)) =>
            trace[j + 1] = Event("delay", RETRY_DELAY_MS)
    /\ (pc = "outcome" /\ ret # Null) =>
         /\ ret = ProductData
         /\ trace[Len(trace)].op = "evaluate"
         /\ attempts < RETRY_LIMIT
         /\ Count(trace, "goto") = attempts + 1
         /\ Count(trace, "delay") = attempts + 1
    /\ (pc = "outcome" /\ ret = Null) =>
         /\ attempts = RETRY_LIMIT
         /\ lastError # NoError
         /\ trace[Len(trace)] = Event("delay", RETRY_DELAY_MS)
    /\ (pc = "outcome" /\ attempts = RETRY_LIMIT) => ret = Null
    /\ pc = "outcome" => ret \in {Null, ProductData}

\* scrapeProduct returns a record on the third attempt, after a navigation
\* timeout and a missing content marker.
C3_Witness ==
  /\ variant = "retry"
  /\ pc = "outcome"
  /\ ret = ProductData
  /\ attempts = 2
  /\ lastError = ContentNotFound

\* The nonzero multiples of BATCH_SIZE up to k, in order.
Multiples(k) == [m \in 1 .. (k \div BATCH_SIZE) |-> m * BATCH_SIZE]

\* C4: the retry orchestrator restarts the browser exactly when it is about
\* to process an index i > 0 with i mod BATCH_SIZE = 0: the restarts made so
\* far are those of the nonzero multiples of BATCH_SIZE among the indices
\* reached (none at index 0), and a finished run over n >= 1 targets has made
\* floor((n - 1) / BATCH_SIZE) of them.
C4_RecycleAtBatchBoundaries ==
  variant = "retry" =>
    /\ pc \in {"loop", "recycle_close"} =>
         recycledAt = (IF i = 0 THEN <<>> ELSE Multiples(i - 1))
    /\ (InTarget \/ pc \in {"recycle_launch", "recycle_configure"}) =>
         recycledAt = Multiples(i)
    /\ (Draining /\ Len(productLinks) >= 1) =>
         /\ recycledAt = Multiples(Len(productLinks) - 1)
         /\ Len(recycledAt) = (Len(productLinks) - 1) \div BATCH_SIZE
    /\ (Draining /\ Len(productLinks) = 0) => recycledAt = <<>>
    /\ \A m \in DOMAIN recycledAt : recycledAt[m] = m * BATCH_SIZE

\* A finished run over 101 targets restarted the browser at indices 50 and
\* 100.
C4_Witness ==
  /\ variant = "retry"
  /\ pc = "done"
  /\ Len(productLinks) = 2 * BATCH_SIZE + 1
  /\ recycledAt = <<BATCH_SIZE, 2 * BATCH_SIZE>>

\* C5: at most one browser is live at any time and the count of live
\* browsers is launches minus closes; while a target is being handled
\* exactly one is live and every earlier target already has its outcome;
\* during a restart the old browser is closed before the new one is launched.
C5_AtMostOneSession ==
  /\ live \in {0, 1}
  /\ live = launched - closed
  /\ InTarget => (live = 1 /\ Len(scrapedData) + Len(failedLinks) = i)
  /\ pc = "recycle_launch" => live = 0
  /\ pc \in {"recycle_close", "recycle_configure"} => live = 1

\* A restart has closed the first browser and launched the second.
C5_Witness ==
  /\ pc = "recycle_configure"
  /\ launched = 2
  /\ closed = 1
  /\ live = 1

\* The files fs.writeFileSync has been called for.
Called == {writeCalls[j] : j \in DOMAIN writeCalls}

\* C6: a run that reaches the result writes calls the write of the success
\* artifact first and unconditionally; once that write has returned the
\* success artifact exists, also when scrapedData is empty; the failure
\* artifact is never written for an empty failedLinks, and a run that is
\* done has written it if and only if failedLinks is non-empty.
C6_SuccessAlwaysFailureIffNonEmpty ==
  /\ pc \in {"write_failed", "done"} => "products" \in artifacts
  /\ (pc \in {"write_failed", "done"}
        \/ (pc = "aborted" /\ abortAt \in {"write_products", "write_failed"})) =>
       (Len(writeCalls) >= 1 /\ writeCalls[1] = "products")
  /\ "failed_links" \in Called => Len(failedLinks) > 0
  /\ "failed_links" \in artifacts => ("failed_links" \in Called /\ "products" \in artifacts)
  /\ pc = "done" => ("failed_links" \in artifacts <=> Len(failedLinks) > 0)

\* A finished run in which no target succeeded: the success artifact is
\* written for the empty scrapedData, and the failure artifact too.
C6_Witness ==
  /\ pc = "done"
  /\ scrapedData = <<>>
  /\ Len(failedLinks) >= 1
  /\ artifacts = {"products", "failed_links"}

\* The statements of the startup: errors there are outside C7 and C10.
StartupSteps == {"launch", "configure"}

\* The calls of the rendering collaborator made while a target is handled:
\* the scheduled restart before it and the calls of its attempts.
TargetSteps == {"recycle_close", "recycle_launch", "recycle_configure",
                "goto", "waitForSelector", "evaluate"}

\* C7 as stated: no error of the rendering collaborator raised while a
\* target is handled, an error from closing, launching or configuring the
\* browser during a scheduled restart included, aborts the run.
C7_NoErrorAbortsRun ==
  pc = "aborted" => abortAt \notin TargetSteps

\* C8 as stated: when the write of the success artifact fails and
\* failedLinks is non-empty, the write of the failure artifact is still
\* attempted.
C8_WritesIndependent ==
  (pc = "aborted" /\ abortAt = "write_products" /\ Len(failedLinks) > 0) =>
     "failed_links" \in Called

\* The input has a schema error: it is not an array, or an entry the loop
\* has reached is not an object with a product_link.
SchemaError ==
  \/ input # "array"
  \/ \E j \in DOMAIN productLinks : productLinks[j].kind # "link"

\* C9 as stated: with a schema error in the input the run writes no
\* artifact, never finishes normally, and does not record the malformed
\* entry as an ordinary failed target.
C9_SchemaErrorFatal ==
  SchemaError =>
    /\ artifacts = {}
    /\ pc # "done"
    /\ \A j \in DOMAIN failedLinks : failedLinks[j].url # Undefined

\* The input is a well-formed list as far as the loop has read it.
WellFormed == ~SchemaError

\* C10 as stated: on a well-formed list, with every call returning or
\* failing, no target gets more than RETRY_LIMIT navigations and the run,
\* once past startup, stops only when it is done: browser closed and the
\* results written.
C10_RunReachesDone ==
  /\ Count(trace, "goto") <= RETRY_LIMIT
  /\ (WellFormed /\ abortAt \notin StartupSteps /\ ~ENABLED Next) =>
        (pc = "done" /\ live = 0 /\ "products" \in artifacts)

\* The lines of the diagnostic log that report a failure of target u (the
\* "no images" lines are written for targets that succeed).
FailureLines(u) ==
  Cardinality({j \in DOMAIN log : log[j].url = u /\ log[j].detail # "NoImages"})

\* The entries of failedLinks for target u.
FailedEntries(u) == Cardinality({j \in DOMAIN failedLinks : failedLinks[j].url = u})

\* C14 as stated: between targets and during the drain, the diagnostic log
\* holds exactly one failure line, with the URL and the failure detail, for
\* every entry of failedLinks, whichever path put the entry there.
C14_EveryFailureLogged ==
  (pc = "loop" \/ Draining) =>
     \A j \in DOMAIN failedLinks :
        FailureLines(failedLinks[j].url) = FailedEntries(failedLinks[j].url)

\* The steps of the scheduled restart before a target.
RestartSteps == {"recycle_close", "recycle_launch", "recycle_configure"}

\* The steps of scrapeProduct and the push of its outcome.
AttemptSteps == {"goto", "waitForSelector", "evaluate", "catch", "outcome"}

\* C15: in the retrying orchestrator the steps for index i come in the order
\* restart (only when i is a non-zero multiple of BATCH_SIZE), request
\* delay, scrapeProduct, push of the outcome: nothing is awaited for the
\* target before the restart and the delay; the restart, when due, is done
\* before the entry is read; the first awaited call of every target, index 0
\* included, is the DELAY_MS delay and the navigation comes right after it;
\* and the outcomes of indices 0 .. i-1 are all pushed before any step for
\* index i.
C15_StepsInOrder ==
  variant = "retry" =>
    /\ pc \in RestartSteps \cup {"entry", "delay"} => trace = <<>>
    /\ pc \in RestartSteps => RecycleDue(i)
    /\ (InTarget /\ RecycleDue(i)) =>
          (recycledAt # <<>> /\ recycledAt[Len(recycledAt)] = i /\ live = 1)
    /\ pc \in AttemptSteps =>
          /\ trace # <<>>
          /\ trace[1] = Event("delay", DELAY_MS)
          /\ Len(trace) >= 2 => trace[2].op = "goto"
    /\ (InTarget \/ pc \in RestartSteps \/ pc = "loop") =>
          /\ Len(scrapedData) + Len(failedLinks) = i
          /\ PosOf(scrapedData) \cup PosOf(failedLinks) = 0 .. (i - 1)

\* The target at index BATCH_SIZE, after its restart and its delay, about
\* to be navigated to for the first time.
C15_Witness ==
  /\ variant = "retry"
  /\ i = BATCH_SIZE
  /\ pc = "goto"
  /\ Len(trace) = 1
  /\ recycledAt = <<BATCH_SIZE>>

\* The steps after the final close.
AfterClose == {"write_products", "write_failed", "done"}

\* C16: when the loop has ended, every outcome is pushed and no call for a
\* target is in flight; the browser is closed before fs.writeFileSync is
\* called for any result file; after that close no browser is live, nothing
\* is navigated to, and every browser launched has been closed.
C16_ClosedBeforeArtifacts ==
  /\ Draining =>
        /\ trace = <<>>
        /\ input = "array" =>
              Len(scrapedData) + Len(failedLinks) = Len(productLinks)
  /\ pc = "close" => (writeCalls = <<>> /\ live = 1)
  /\ writeCalls # <<>> => live = 0
  /\ pc \in AfterClose => (live = 0 /\ launched = closed)

\* A run that is done after a scheduled restart, with both result files
\* written.
C16_Witness ==
  /\ pc = "done"
  /\ launched = 2
  /\ closed = 2
  /\ artifacts = {"products", "failed_links"}

\* The retry delays in a trace: every delay but the request delay at its
\* head.
RetryDelays(t) == Count(t, "delay") - 1

\* C17: in the retrying orchestrator a step that adds a target to
\* failedLinks is taken only after exactly RETRY_LIMIT attempts which all
\* ended in the catch clause (RETRY_LIMIT navigations, as many retry delays,
\* the last call a retry delay, scrapeProduct returning null); and an error
\* caught before the limit is reached leads back to a navigation, not to
\* failedLinks.
C17_FailedOnlyAfterRetryLimit ==
  [][variant = "retry" =>
       /\ failedLinks' # failedLinks =>
            /\ pc = "outcome"
            /\ ret = Null
            /\ attempts = RETRY_LIMIT
            /\ Count(trace, "goto") = RETRY_LIMIT
            /\ RetryDelays(trace) = RETRY_LIMIT
            /\ trace[Len(trace)].op = "delay"
            /\ failedLinks' = Append(failedLinks, Failed(i, url))
       /\ (pc = "catch" /\ attempts + 1 < RETRY_LIMIT) =>
            (pc' = "goto" /\ failedLinks' = failedLinks)
       /\ (pc = "outcome" /\ trace[Len(trace)].op = "evaluate") =>
            failedLinks' = failedLinks]_vars

\* A target has been added to failedLinks after one before it succeeded.
C17_Witness ==
  /\ variant = "retry"
  /\ Len(failedLinks) = 1
  /\ Len(scrapedData) >= 1
  /\ pc = "loop"

\* ------------------------------------------------ claims on the extractor

\* The callback of tables.forEach, folded over the tables from the j-th on.
RECURSIVE TablesFrom(_, _, _, _)
TablesFrom(e, d, tables, j) ==
  IF j > Len(tables) THEN d
  ELSE TablesFrom(e, TableStep(e, d, tables[j]), tables, j + 1)

RECURSIVE TempTablesFrom(_, _, _, _)
TempTablesFrom(e, temp, tables, j) ==
  IF j > Len(tables) THEN temp
  ELSE TempTablesFrom(e, TempTableStep(e, temp, tables[j]), tables, j + 1)

\* The record the try block builds from a document when nothing throws.
Extracted(e, document) ==
  LET imaged == CollectImages(e, NameAndPartNumber(InitialData(e), document), document) IN
    IF e = "html"
      THEN Rendered(imaged, TempTablesFrom(e, InitialTempData, document.tables, 1))
      ELSE TablesFrom(e, imaged, document.tables, 1)

\* The three aspects of a record.
NameAspect(d) == <<d.product_name, d.part_number>>

ImagesAspect(d) == d.images

SectionsAspect(d) == <<d.oem_reference, d.compatibility, d.technical_specifications>>

\* C11 as stated: when the extraction of one aspect (name and part number,
\* images, sections) throws, the returned record has that aspect empty and
\* each other aspect as an error-free extraction of the document gives it.
C11_AspectsFailIndependently ==
  xpc = "returned" =>
    LET whole == Extracted(extractor, doc)
        empty == InitialData(extractor)
    IN /\ NameAspect(data) =
            NameAspect(IF doc.throws = "name" THEN empty ELSE whole)
       /\ ImagesAspect(data) =
            ImagesAspect(IF doc.throws = "images" THEN empty ELSE whole)
       /\ SectionsAspect(data) =
            SectionsAspect(IF doc.throws = "tables" THEN empty ELSE whole)

\* The images step is done, no table has been processed yet.
ImagesCollected ==
  /\ xpc \in {"tables", "render", "returned"}
  /\ doc.throws \notin {"name", "images"}
  /\ tableIx = 0

\* An absolute URL: a scheme, "//", then the host and path.
Absolute(u) ==
  /\ Len(u) >= 3
  /\ u[1] \in {"http:", "https:"}
  /\ u[2] = "//"
  /\ u[3] \notin {"http:", "https:", "//", "?", "{width}"}

\* C12 as stated: whatever the img elements of the document, no two entries
\* of the images list are equal after their query strings are stripped, no
\* entry contains the placeholder {width}, and every entry is an absolute
\* URL.
C12_ImagesDistinctAndAbsolute ==
  ImagesCollected =>
    /\ \A j, k \in DOMAIN data.images :
         j # k => BeforeQuery(data.images[j]) # BeforeQuery(data.images[k])
    /\ \A j \in DOMAIN data.images :
         /\ ~Includes(data.images[j], <<"{width}">>)
         /\ Absolute(data.images[j])

\* The first row of a table holds an emphasized label.
Emphasized(rows) == Len(rows) > 0 /\ rows[1].strong

\* The heading of a table, lowercased and with underscores for spaces.
Heading(rows) == ReplaceSpaces(ToLowerCase(InnerText(rows[1])))

\* The section a table's heading resolves to by the three known substrings,
\* "" if the first row has no emphasized label or the heading has none of
\* them.
KnownSection(rows) ==
  IF ~Emphasized(rows) THEN ""
  ELSE IF Includes(Heading(rows), OemNeedle) THEN "oem_reference"
  ELSE IF Includes(Heading(rows), CompatibilityNeedle) THEN "compatibility"
  ELSE IF Includes(Heading(rows), TechnicalNeedle) THEN "technical_specifications"
  ELSE ""

\* The rows of a table from the `first`-th on that have exactly two cells.
TwoCellRows(rows, first) == {j \in first .. Len(rows) : Len(rows[j].cells) = 2}

\* The text of a cell, lowercased and with underscores for spaces.
NormalKey(cell) == ReplaceSpaces(ToLowerCase(Trim(cell)))

\* The text of a cell as it stands.
CellText(cell) == Trim(cell)

\* Object `after` is object `before` with one entry entered for every
\* two-cell row from the `first`-th on, under the key Key makes of the
\* row's first cell and with the text of its second cell as the value, and
\* nothing else: one property per key, the other keys as they were.
Entered(before, after, rows, first, Key(_)) ==
  LET entered == {Key(rows[j].cells[1]) : j \in TwoCellRows(rows, first)} IN
    /\ Keys(after) = Keys(before) \cup entered
    /\ Len(after) = Cardinality(Keys(after))
    /\ \A k \in Keys(after) :
         IF k \in entered
           THEN Get(after, k) \in
                  {CellText(rows[j].cells[2]) :
                     j \in {m \in TwoCellRows(rows, first) : Key(rows[m].cells[1]) = k}}
           ELSE Get(after, k) = Get(before, k)

\* The object the rows of a section are collected in.
SectionObject(e, d, temp, f) == IF e = "html" THEN temp[f] ELSE d[f]

\* A step that processes the table after the tableIx tables done so far.
TableProcessed == xpc = "tables" /\ tableIx' = tableIx + 1

\* The fields of a record other than the sections.
HeadFields(d) == <<d.product_name, d.part_number, d.images>>

Usable(src) == src # <<>> /\ ~Includes(src, <<"{width}">>)

Normalized(src) == BeforeQuery(IF StartsWithHttp(src) THEN src ELSE <<"https:">> \o src)

Yield(srcs) ==
  LET usable == SelectSeq(srcs, Usable) IN [j \in DOMAIN usable |-> Normalized(usable[j])]

\* The URLs of the sources consulted, in priority order: the slideshow, the
\* fallback gallery if and only if the slideshow yields nothing, the lazy
\* images always.
Consulted(document) ==
  Yield(document.primary)
    \o (IF Yield(document.primary) = <<>> THEN Yield(document.fallback) ELSE <<>>)
    \o Yield(document.lazy)

\* The place a value first takes in a sequence.
FirstAt(seq, value) ==
  CHOOSE j \in DOMAIN seq : seq[j] = value /\ \A k \in 1 .. (j - 1) : seq[k] # value

\* C18: in the "dedup" extractor the images list holds exactly the URLs of
\* the sources consulted in priority order (slideshow; fallback gallery iff
\* the slideshow yields nothing; lazy images always), each once, in the
\* order in which they are first seen.
C18_ImageSourcePriority ==
  (extractor = "dedup" /\ ImagesCollected) =>
    LET seen == Consulted(doc) IN
      /\ Range(data.images) = Range(seen)
      /\ \A j, k \in DOMAIN data.images :
           j < k => FirstAt(seen, data.images[j]) < FirstAt(seen, data.images[k])

\* The slideshow has an img but yields nothing (a placeholder only), so the
\* fallback gallery is used, and a lazy image follows.
C18_Witness ==
  /\ extractor = "dedup"
  /\ ImagesCollected
  /\ doc.primary = << <<"//", "cdn/c_", "{width}", "x.jpg">> >>
  /\ doc.fallback = << <<"//", "cdn/b.jpg">> >>
  /\ doc.lazy = << <<"https:", "//", "cdn/a.jpg", "?", "v=2">> >>
  /\ data.images = << <<"https:", "//", "cdn/b.jpg">>, <<"https:", "//", "cdn/a.jpg">> >>

\* A document without the tables whose heading is not resolved to one of
\* the three sections.
Resolved(rows) == KnownSection(rows) # ""

WithoutUnresolved(document) == [document EXCEPT !.tables = SelectSeq(@, Resolved)]

\* C19 as stated: a table whose heading is not resolved to one of the three
\* sections (no emphasized label in the first row, or a heading with none
\* of the known substrings, such as 'images' or 'part_number') contributes
\* no data: every field of the returned record is what it is for the
\* document without that table.
C19_UnresolvedTableNoData ==
  (xpc = "returned" /\ doc.throws = "none") =>
     data = Extracted(extractor, WithoutUnresolved(doc))

\* The field of the record the rows of a table are written to.
WrittenField(e, rows) == Property(SectionName(e, rows))

\* The two-cell later rows of the tables processed so far that are written
\* to section f under key k, as <<table, row>> positions.
WritesOf(f, k) ==
  UNION {{<<t, j>> : j \in {m \in TwoCellRows(doc.tables[t], 2) :
                               NormalKey(doc.tables[t][m].cells[1]) = k}} :
           t \in {u \in 1 .. tableIx : WrittenField(extractor, doc.tables[u]) = f}}

\* The written keys of section f.
WrittenKeys(f) ==
  UNION {{NormalKey(doc.tables[t][j].cells[1]) : j \in TwoCellRows(doc.tables[t], 2)} :
           t \in {u \in 1 .. tableIx : WrittenField(extractor, doc.tables[u]) = f}}

\* The last of a set of positions in document order.
LastOf(positions) ==
  CHOOSE p \in positions :
    \A q \in positions : q[1] < p[1] \/ (q[1] = p[1] /\ q[2] <= p[2])

\* C20: in the "basic" and "dedup" extractors every section mapping holds
\* each key once, holds exactly the keys written by the tables processed so
\* far, and holds for each key the value of the last row, in document
\* order, written under it, whether the rows are in one table or in
\* different tables of the same section.
C20_LastWriteWins ==
  (extractor \in {"basic", "dedup"} /\ xpc \in {"tables", "returned"}) =>
    \A f \in Sections :
      /\ Len(data[f]) = Cardinality(Keys(data[f]))
      /\ Keys(data[f]) = WrittenKeys(f)
      /\ \A k \in Keys(data[f]) :
           LET last == LastOf(WritesOf(f, k)) IN
             Get(data[f], k) = CellText(doc.tables[last[1]][last[2]].cells[2])

\* Two tables of the same section, each with a row of the same normalized
\* key and different values: the second table's value is the one held.
C20_Witness ==
  /\ extractor = "basic"
  /\ tableIx = 2
  /\ KnownSection(doc.tables[1]) = "oem_reference"
  /\ KnownSection(doc.tables[2]) = "oem_reference"
  /\ doc.tables[1][2].cells = << <<"ABC", " ", "100">>, <<"XYZ-9">> >>
  /\ doc.tables[2][2].cells = << <<"abc", " ", "100", " ">>, <<" ", "QRS-1">> >>
  /\ data.oem_reference = << << <<"abc", "_", "100">>, <<"QRS-1">> >> >>

\* ------------------------------------------- further claims on the loops

\* The line logErrorToFile appends for a record without images.
NoImagesLine(u) == [url |-> u, detail |-> "NoImages"]

\* C21 as stated: in the logging orchestrator, once page.evaluate has
\* handed back a record whose images list is empty, the next steps for the
\* target are the append of one log line with its URL and then the push of
\* the record to scrapedData; nothing is added to failedLinks and no call
\* is made for the target again.
C21_NoImagesIsSuccess ==
  [][(variant = "logging" /\ ret = ProductDataNoImages) =>
       \/ /\ pc = "log_noimages"
          /\ pc' = "outcome"
          /\ ret' = ret
          /\ log' = Append(log, NoImagesLine(url))
          /\ UNCHANGED <<scrapedData, failedLinks, trace>>
       \/ /\ pc = "outcome"
          /\ scrapedData' = Append(scrapedData, Succeeded(i, url, ret))
          /\ UNCHANGED <<failedLinks, log>>]_vars

\* The steps from the request delay of a target to the push of its outcome.
FromFirstAttempt == {"delay", "goto", "waitForSelector", "evaluate",
                     "log_noimages", "catch", "outcome", "main_catch"}

\* C22: no step taken between the first attempt for a target and the push
\* of its outcome closes or launches a browser, so all the attempts for the
\* target, RETRY_LIMIT at most, are made on the page of the same browser;
\* and a browser is closed or launched only while no attempt has been made
\* for the current target.
C22_RecycleOnlyBetweenTargets ==
  [][/\ pc \in FromFirstAttempt =>
          (launched' = launched /\ closed' = closed /\ live' = live)
     /\ (launched' # launched \/ closed' # closed) =>
          (attempts = 0 /\ trace = <<>> /\ ret = Unset)
     /\ attempts <= RETRY_LIMIT]_vars

\* The target at index BATCH_SIZE has used up its attempts on the browser
\* launched by the restart before it, and its outcome is about to be pushed.
C22_Witness ==
  /\ variant = "retry"
  /\ i = BATCH_SIZE
  /\ pc = "outcome"
  /\ attempts = RETRY_LIMIT
  /\ launched = 2
  /\ closed = 1
  /\ live = 1

\* The entries of a collection stand in the order of their targets' indices.
InInputOrder(seq) == \A j \in 1 .. (Len(seq) - 1) : seq[j].pos < seq[j + 1].pos

\* Every entry of a collection carries the URL of the target it stands for.
UrlsOfInput(seq) ==
  \A j \in DOMAIN seq :
     /\ seq[j].pos + 1 \in DOMAIN productLinks
     /\ seq[j].url = productLinks[seq[j].pos + 1].product_link

\* The number of entries of a collection with URL u.
Occurrences(seq, u) == Cardinality({j \in DOMAIN seq : seq[j].url = u})

\* The number of the first n targets of the list with URL u.
InputOccurrences(u, n) ==
  Cardinality({k \in 1 .. n : productLinks[k].product_link = u})

\* The URLs a target can have.
TargetUrls == {UrlPool[k] : k \in DOMAIN UrlPool} \cup {Undefined}

\* C23: scrapedData and failedLinks each hold their targets in the order of
\* the target list (each is the list restricted to some of its indices, in
\* increasing order, with the URLs found there), and whenever no target is
\* being handled a URL that k of the targets processed so far have occurs k
\* times in the two collections together; once the loop has ended the
\* targets processed are the whole list.
C23_OrderAndMultiplicityKept ==
  /\ InInputOrder(scrapedData)
  /\ InInputOrder(failedLinks)
  /\ UrlsOfInput(scrapedData)
  /\ UrlsOfInput(failedLinks)
  /\ i <= Len(productLinks)
  /\ ~InTarget =>
       \A u \in TargetUrls :
          Occurrences(scrapedData, u) + Occurrences(failedLinks, u) = InputOccurrences(u, i)
  /\ Draining => i = Len(productLinks)

\* A finished run over a list in which one URL occurs twice, one of its
\* targets scraped and the other failed.
C23_Witness ==
  /\ pc = "done"
  /\ InputOccurrences(UrlPool[1], Len(productLinks)) = 2
  /\ Occurrences(scrapedData, UrlPool[1]) = 1
  /\ Occurrences(failedLinks, UrlPool[1]) = 1

\* The attempts made for the current target: one navigation opens each.
AttemptsMade == Count(trace, "goto")

\* C24: in the retrying scrapeProduct every failed attempt is followed by
\* one RETRY_DELAY_MS delay, the last one included: while the call runs the
\* retry delays made equal the failed attempts counted; a call that returns
\* null has made RETRY_LIMIT attempts and RETRY_LIMIT retry delays, the last
\* of them after the last attempt; and a call that returns a record on its
\* k-th attempt has made k - 1 retry delays.
C24_DelayAfterEveryFailedAttempt ==
  (variant = "retry" /\ pc \in AttemptSteps) =>
     /\ RetryDelays(trace) = attempts
     /\ \A j \in 2 .. Len(trace) :
          trace[j].op = "delay" =>
             (trace[j].ms = RETRY_DELAY_MS /\ trace[j - 1].op # "delay")
     /\ (pc = "outcome" /\ ret = Null) =>
          /\ AttemptsMade = RETRY_LIMIT
          /\ RetryDelays(trace) = RETRY_LIMIT
          /\ trace[Len(trace)] = Event("delay", RETRY_DELAY_MS)
     /\ (pc = "outcome" /\ ret # Null) =>
          /\ AttemptsMade \in 1 .. RETRY_LIMIT
          /\ RetryDelays(trace) = AttemptsMade - 1
          /\ trace[Len(trace)].op = "evaluate"

\* scrapeProduct has returned a record on its third attempt, after two
\* retry delays.
C24_Witness ==
  /\ variant = "retry"
  /\ pc = "outcome"
  /\ ret = ProductData
  /\ AttemptsMade = RETRY_LIMIT
  /\ RetryDelays(trace) = RETRY_LIMIT - 1

====
